---- MODULE Spec2Model ----
(***************************************************************************)
(* Transaction and balance engine of the beehaiv backend.                  *)
(*                                                                         *)
(* Money amounts are Python floats in the source; they are modelled as     *)
(* integers (whole currency units), negative values included, because the  *)
(* request schemas put no constraint on `amount`.                          *)
(*                                                                         *)
(* The users and bank_accounts tables are state: a specification fixes in  *)
(* its initial state which users and accounts exist.                       *)
(*                                                                         *)
(* Every request handler runs in its own database session.  An ORM object  *)
(* loaded by the handler keeps the attribute values it was loaded with     *)
(* (the handlers go on using bank_account.balance after the service layer  *)
(* has committed, which an async session only permits when objects are not *)
(* expired on commit), and a commit writes the attribute values the        *)
(* handler computed.  Each `await session.commit()` is a separate database *)
(* transaction, so other requests may run between two commits of one       *)
(* handler.                                                                *)
(*                                                                         *)
(* Time is the server's clock in seconds.  Token expiry is written with    *)
(* datetime.now() and checked against the same clock (a server whose local *)
(* time is UTC).  A Redis key set with a time to live exists until that    *)
(* time has passed.                                                        *)
(***************************************************************************)
EXTENDS Integers, Sequences, FiniteSets, TLC

\* ------------------------------------------------------------------ bounds
MaxTx == 1          \* transactions table rows, one handler at a time
MaxRaceTx == 2      \* transactions table rows, concurrent handlers
MaxFund == 2        \* largest balance an administrator sets
MaxPatch == 2       \* status updates applied to one transaction
MaxTokens == 3      \* JWTs issued
MaxTicks == 3       \* advances of the clock

\* ------------------------------------------------------------------ inputs
NoAccount == "nope"                 \* an account number no bank account has
Requests == {"r1", "r2"}            \* request handlers that may be in flight together
Amounts == {-1, 1, 2}               \* `amount: float`, unvalidated
Pins == {"1234", "0000"}
FundValues == 0 .. MaxFund
NoTx == 0

TransactionStatus == {"pending", "completed", "failed"}

Emails == {"alice", "bob"}
Passwords == {"secret", "guess"}
Ips == {"ip0", "ip1", "ip2", "ip3", "ip4"}
HalfHour == 1800
ClockSteps == {HalfHour, 172800}        \* half an hour, two days

ACCESS_TOKEN_EXPIRY == 3600
REFRESH_TOKEN_EXPIRY == 2
JTI_EXPIRY == 3600
VERIFICATION_CODE_EXPIRY == 900
SecondsPerDay == 86400

\* passlib hashing: the hash determines the password it was made from
generate_passwd_hash(password) == <<"bcrypt", password>>

verify_password(password, hash) == hash = generate_passwd_hash(password)

\* a row of the users table as UserService.create_user leaves it: no verified
\* email yet
create_user(role, domain, password, ip_address) ==
  [role |-> role, domain |-> domain, ip_address |-> ip_address,
   password_hash |-> generate_passwd_hash(password),
   transfer_pin_hash |-> generate_passwd_hash("1234"),
   is_blocked |-> FALSE, verified |-> FALSE]

\* UserService.save_verified_email: the user has a verified email
save_verified_email(user) == [user EXCEPT !.verified = TRUE]

\* a row of the users table as create_user and verify-email leave it
NewUser(role, domain) ==
  save_verified_email(create_user(role, domain, "secret", "ip0"))

\* ------------------------------------------------------------------- state
VARIABLES
  users,          \* the users table, by user
  balance,        \* bank_accounts.balance, by account number
  transactions,   \* the transactions table; a row's uid is its index
  req,            \* per request handler between two commits: its locals
  last,           \* the request most recently answered, and the answer
  ledger,         \* history, per transaction: balance effects applied for it,
                  \* status updates committed, whether a handler was cut short
  serial,         \* history, per account: the balance if every answered
                  \* operation had been applied in full, one after the other
  clock,          \* the server's clock, in seconds
  tokens,         \* the payloads of the JWTs issued so far
  blocklist,      \* Redis: revoked jti -> the instant its key expires
  attempts,       \* Redis: new_ip:{user}:{ip} -> attempt count
  reply,          \* the auth request most recently answered, and the answer
  seen,           \* history, per user: unfamiliar IPs the trust guard evaluated
  verification_code   \* Redis: verification_code:{user} -> code, flag, expiry

vars == <<users, balance, transactions, req, last, ledger, serial,
          clock, tokens, blocklist, attempts, reply, seen, verification_code>>

\* the state of the token service and the trust guard
authVars == <<clock, tokens, blocklist, attempts, reply, seen, verification_code>>

\* the state of the transaction engine
engineVars == <<balance, transactions, req, last, ledger, serial>>

AccountNumbers == DOMAIN balance

IdleReq ==
  [pc |-> "idle", kind |-> "none", user |-> "none", pin |-> "none",
   account_number |-> NoAccount, amount |-> 0, snap |-> 0, tx |-> NoTx,
   effect |-> "none"]

NoResponse ==
  [kind |-> "none", user |-> "none", pin |-> "none", account_number |-> NoAccount,
   amount |-> 0, tx |-> NoTx, result |-> "none", rows |-> {}]

\* Python's None where a dict is expected
None == [none |-> TRUE]

NoToken == None

NoReply ==
  [kind |-> "none", token |-> NoToken, email |-> "none", secret |-> "none",
   ip |-> "none", result |-> "none", issued |-> {}]

\* an empty Redis, no token issued, nothing asked of the auth endpoints yet
AuthIdle ==
  /\ clock = 0
  /\ tokens = {}
  /\ blocklist = [j \in {} |-> 0]
  /\ attempts = [k \in {} |-> 0]
  /\ reply = NoReply
  /\ seen = [u \in DOMAIN users |-> {}]
  /\ verification_code = [u \in {} |-> None]

\* a verified customer, a manager and one bank account that an administrator
\* has set to some balance
Init ==
  /\ users = [u \in {"alice", "mgr"} |->
                IF u = "mgr" THEN NewUser("manager", "d1") ELSE NewUser("user", "d1")]
  /\ balance \in [{"acc1"} -> FundValues]
  /\ transactions = <<>>
  /\ req = [r \in Requests |-> IdleReq]
  /\ last = NoResponse
  /\ ledger = <<>>
  /\ serial = balance
  /\ AuthIdle

\* one customer and one bank account that an administrator has set to some
\* balance
InitConcurrent ==
  /\ users = [u \in {"alice"} |-> NewUser("user", "d1")]
  /\ balance \in [{"acc1"} -> FundValues]
  /\ transactions = <<>>
  /\ req = [r \in Requests |-> IdleReq]
  /\ last = NoResponse
  /\ ledger = <<>>
  /\ serial = balance
  /\ AuthIdle

\* ----------------------------------------------------------------- helpers
\* the dependency every handler below runs behind
\* the dependency without the test of is_blocked
get_current_user_NoBlock(u) ==
  IF ~users[u].verified THEN "Forbidden"
  ELSE "ok"

\* for a blocked user it calls send_blocked_email(user), which takes three
\* arguments, and the call raises before the 403 is
get_current_user(u) ==
  IF users[u].is_blocked THEN "TypeError"
  ELSE IF ~users[u].verified THEN "Forbidden"
  ELSE "ok"

\* the Redis hash verification_code:{user} exists and has not expired
CodeStored(store, u) == u \in DOMAIN store /\ clock < store[u].until

\* the email verification code: a signed, URL-safe token that carries the email
generate_verification_code(email) == <<"email-configuration", email>>

\* send_verification_code: a new code is stored when none is, the stored one
\* is kept otherwise (nothing ever marks it verified); no mail is sent
send_verification_code(store, u) ==
  IF CodeStored(store, u) THEN store
  ELSE [x \in DOMAIN store \cup {u} |->
          IF x = u THEN [code |-> generate_verification_code(u), verified |-> "false",
                         until |-> clock + VERIFICATION_CODE_EXPIRY]
          ELSE store[x]]

\* get_current_user without the call of send_verification_code
AfterCurrentUser_Silent(u) == verification_code

\* Redis after get_current_user has run for u
AfterCurrentUser(u) ==
  IF ~users[u].is_blocked /\ ~users[u].verified
    THEN send_verification_code(verification_code, u)
    ELSE verification_code

get_bank_by_account_number(account_number) ==
  IF account_number \in AccountNumbers THEN account_number ELSE NoAccount

\* a role test that everyone passes
IsStaff_Anyone(u) == TRUE

IsStaff(u) == users[u].role \in {"manager", "admin"}

InFlight(r) == req[r].pc = "await_balance"

\* a handler is between its two commits for this transaction
Busy(t) == \E r \in Requests : InFlight(r) /\ req[r].tx = t

\* debits pending on an account, as a handler sees them that reads the
\* account now: for each handler that passed the funds check on it and has not
\* yet written the balance, its transaction, the balance it read and the
\* balance read now
PendingDebits(account_number) ==
  {[tx |-> req[q].tx, theirs |-> req[q].snap, mine |-> balance[account_number]] :
     q \in {x \in Requests : /\ InFlight(x)
                             /\ req[x].kind \in {"domestic", "withdraw"}
                             /\ req[x].account_number = account_number}}

ZeroNet == [a \in AccountNumbers |-> 0]

NewLedgerEntry(origin, account_number, overlap) ==
  [origin |-> origin, account |-> account_number, overlap |-> overlap,
   debits |-> 0, credits |-> 0, net |-> ZeroNet, hist |-> <<>>,
   cancelled |-> FALSE]

NewTransaction(u, amount, type, status) ==
  [user_id |-> u, domain |-> users[u].domain, amount |-> amount,
   transaction_type |-> type, status |-> status]

Response(kind, u, pin, account_number, amount, tx, result) ==
  [kind |-> kind, user |-> u, pin |-> pin, account_number |-> account_number,
   amount |-> amount, tx |-> tx, result |-> result, rows |-> {}]

\* a handler that raises after the transaction row was inserted and committed
Raise_RowWritten(kind, u, pin, account_number, amount, error) ==
  /\ last' = Response(kind, u, pin, account_number, amount, NoTx, error)
  /\ transactions' = Append(transactions, NewTransaction(u, amount, "transfer", "failed"))
  /\ ledger' = Append(ledger, NewLedgerEntry(kind, account_number, {}))
  /\ UNCHANGED <<users, balance, req, serial>>
  /\ UNCHANGED authVars

\* a request that get_current_user refuses before the handler runs
Denied(kind, u, pin, account_number, amount) ==
  /\ last' = Response(kind, u, pin, account_number, amount, NoTx, get_current_user(u))
  /\ verification_code' = AfterCurrentUser(u)
  /\ UNCHANGED <<users, balance, transactions, req, ledger, serial>>
  /\ UNCHANGED <<clock, tokens, blocklist, attempts, reply, seen>>

\* a handler that raises before writing anything
Raise(kind, u, pin, account_number, amount, error) ==
  /\ last' = Response(kind, u, pin, account_number, amount, NoTx, error)
  /\ UNCHANGED <<users, balance, transactions, req, ledger, serial>>
  /\ UNCHANGED authVars

\* the balance effect of one handler on one account, recorded when it is written
Applied(entry, account_number, old, new, isDebit) ==
  [entry EXCEPT !.debits = IF isDebit THEN @ + 1 ELSE @,
                !.credits = IF isDebit THEN @ ELSE @ + 1,
                !.net[account_number] = @ + (new - old)]

\* --------------------------------------------- transfers and withdrawals
\* the same checks with the PIN compared last
TransferGate_FundsFirst(u, pin, account_number, amount) ==
  LET bank_account == get_bank_by_account_number(account_number) IN
  IF bank_account = NoAccount THEN "BankAccountNotFound"
  ELSE IF balance[bank_account] < amount THEN "InsufficientFunds"
  ELSE IF ~verify_password(pin, users[u].transfer_pin_hash) THEN "InvalidTransactionPin"
  ELSE "ok"

\* the outcome of the checks the three money-moving handlers make, in order
TransferGate(u, pin, account_number, amount) ==
  LET bank_account == get_bank_by_account_number(account_number) IN
  IF ~verify_password(pin, users[u].transfer_pin_hash) THEN "InvalidTransactionPin"
  ELSE IF bank_account = NoAccount THEN "BankAccountNotFound"
  ELSE IF balance[bank_account] < amount THEN "InsufficientFunds"
  ELSE "ok"

\* First part of the three money-moving handlers, up to and including the
\* commit made by the service layer: PIN gate, account lookup, funds check,
\* insertion of the transaction row.  `room` is the number of rows the
\* transactions table may hold.
CreateStep(r, room, kind, type, status, u, pin, account_number, amount) ==
  LET gate == TransferGate(u, pin, account_number, amount) IN
  /\ ~InFlight(r)
  /\ IF get_current_user(u) # "ok"
       THEN Denied(kind, u, pin, account_number, amount)
     ELSE IF gate # "ok"
       THEN Raise(kind, u, pin, account_number, amount, gate)
     ELSE /\ Len(transactions) < room
          /\ transactions' = Append(transactions, NewTransaction(u, amount, type, status))
          /\ ledger' = Append(ledger,
                 NewLedgerEntry(kind, account_number, PendingDebits(account_number)))
          /\ req' = [req EXCEPT ![r] =
                       [pc |-> "await_balance", kind |-> kind, user |-> u, pin |-> pin,
                        account_number |-> account_number, amount |-> amount,
                        snap |-> balance[account_number],
                        tx |-> Len(transactions) + 1, effect |-> "debit"]]
          /\ UNCHANGED <<users, balance, last, serial>>
          /\ UNCHANGED authVars

\* a debit that leaves the loaded balance as it is
Debit_Nothing(loaded, amount) == loaded

\* bank_account.balance -= transaction_data.amount, on the loaded object
Debit(loaded, amount) == loaded - amount

\* bank_account.balance += transaction.amount, on the loaded object
Credit(loaded, amount) == loaded + amount

\* Second part: the handler subtracts the amount from the balance it loaded
\* before the funds check, commits and answers with the transaction.
DebitStep(r) ==
  LET q == req[r]
      a == q.account_number
      new == Debit(q.snap, q.amount) IN
  /\ InFlight(r)
  /\ balance' = [balance EXCEPT ![a] = new]
  /\ serial' = [serial EXCEPT ![a] = @ - q.amount]
  /\ ledger' = [ledger EXCEPT ![q.tx] = Applied(@, a, balance[a], new, TRUE)]
  /\ req' = [req EXCEPT ![r] = IdleReq]
  /\ last' = Response(q.kind, q.user, q.pin, a, q.amount, q.tx, "ok")
  /\ UNCHANGED <<users, transactions>>
  /\ UNCHANGED authVars

make_domestic_transfers(r, room) ==
  \E u \in DOMAIN users, pin \in Pins, account_number \in AccountNumbers \cup {NoAccount},
     amount \in Amounts :
    CreateStep(r, room, "domestic", "transfer", "completed", u, pin, account_number, amount)

make_domestic_transfers_debit(r) ==
  /\ req[r].kind = "domestic"
  /\ DebitStep(r)

make_international_transfers(r, room) ==
  \E u \in DOMAIN users, pin \in Pins, account_number \in AccountNumbers \cup {NoAccount},
     amount \in Amounts :
    CreateStep(r, room, "international", "transfer", "pending", u, pin, account_number, amount)

make_international_transfers_debit(r) ==
  /\ req[r].kind = "international"
  /\ DebitStep(r)

withdraw_from_balance(r, room) ==
  \E u \in DOMAIN users, pin \in Pins, account_number \in AccountNumbers \cup {NoAccount},
     amount \in Amounts :
    CreateStep(r, room, "withdraw", "withdrawal", "completed", u, pin, account_number, amount)

withdraw_from_balance_debit(r) ==
  /\ req[r].kind = "withdraw"
  /\ DebitStep(r)

\* A request is cancelled, or its worker dies, between the two commits of its
\* handler: what was committed stays, the rest never happens.
Cancel(r) ==
  /\ InFlight(r)
  /\ req' = [req EXCEPT ![r] = IdleReq]
  /\ last' = NoResponse
  /\ ledger' = [ledger EXCEPT ![req[r].tx].cancelled = TRUE]
  /\ UNCHANGED <<users, balance, transactions, serial>>
  /\ UNCHANGED authVars

\* ------------------------------------------------ administrative create
create_transaction_record(room) ==
  \E u \in DOMAIN users, amount \in Amounts :
    IF get_current_user(u) # "ok"
      THEN Denied("create", u, "none", NoAccount, amount)
    ELSE IF ~IsStaff(u)
      THEN Raise("create", u, "none", NoAccount, amount, "InsufficientPermission")
    ELSE /\ Len(transactions) < room
         /\ transactions' =
              Append(transactions, NewTransaction(u, amount, "transfer", "completed"))
         /\ ledger' = Append(ledger, NewLedgerEntry("create", NoAccount, {}))
         /\ last' = Response("create", u, "none", NoAccount, amount,
                             Len(transactions) + 1, "ok")
         /\ UNCHANGED <<users, balance, req, serial>>
         /\ UNCHANGED authVars

\* -------------------------------------------------------- status update
\* the balance effect derived from the status alone
BalanceEffect_AnyType(status, type) ==
  IF status = "completed" THEN "debit"
  ELSE IF status = "failed" THEN "credit"
  ELSE "none"

\* the balance effect the PATCH handler derives from the updated row
BalanceEffect(status, type) ==
  IF status = "completed" /\ type = "transfer" THEN "debit"
  ELSE IF status = "failed" /\ type = "transfer" THEN "credit"
  ELSE "none"

\* the same checks with the actor's role tested first
UpdateGate_RoleFirst(u, account_number, uid) ==
  IF ~IsStaff(u) THEN "InsufficientPermission"
  ELSE IF get_bank_by_account_number(account_number) = NoAccount THEN "BankAccountNotFound"
  ELSE IF uid > Len(transactions) THEN "TransactionNotFound"
  ELSE "ok"

\* the same checks without the one on the actor's role
UpdateGate_NoRole(u, account_number, uid) ==
  IF get_bank_by_account_number(account_number) = NoAccount THEN "BankAccountNotFound"
  ELSE IF uid > Len(transactions) THEN "TransactionNotFound"
  ELSE "ok"

\* the outcome of the checks PATCH /transactions/{uid} makes, in order
UpdateGate(u, account_number, uid) ==
  IF get_bank_by_account_number(account_number) = NoAccount THEN "BankAccountNotFound"
  ELSE IF ~IsStaff(u) THEN "InsufficientPermission"
  ELSE IF uid > Len(transactions) THEN "TransactionNotFound"
  ELSE "ok"

\* First part of PATCH /transactions/{uid}: account lookup, then the service
\* (role check, row lookup, status assignment, commit).
update_transaction(r) ==
  \E u \in DOMAIN users, account_number \in AccountNumbers \cup {NoAccount},
     uid \in 1 .. (Len(transactions) + 1), status \in TransactionStatus :
    LET gate == UpdateGate(u, account_number, uid) IN
    /\ ~InFlight(r)
    /\ IF get_current_user(u) # "ok"
         THEN Denied("update", u, "none", account_number, 0)
       ELSE IF gate # "ok"
         THEN Raise("update", u, "none", account_number, 0, gate)
       ELSE /\ Len(ledger[uid].hist) < MaxPatch
            /\ transactions' = [transactions EXCEPT ![uid].status = status]
            /\ ledger' = [ledger EXCEPT ![uid].hist = Append(@, status)]
            /\ req' = [req EXCEPT ![r] =
                         [pc |-> "await_balance", kind |-> "update", user |-> u,
                          pin |-> "none", account_number |-> account_number,
                          amount |-> transactions[uid].amount,
                          snap |-> balance[account_number], tx |-> uid,
                          effect |-> BalanceEffect(status,
                                                   transactions[uid].transaction_type)]]
            /\ UNCHANGED <<users, balance, last, serial>>
            /\ UNCHANGED authVars

\* Second part: the handler adjusts the balance it loaded at the start
\* according to the updated row, commits and answers with the transaction.
update_transaction_balance(r) ==
  LET q == req[r]
      a == q.account_number
      delta == IF q.effect = "debit" THEN 0 - q.amount ELSE q.amount
      new == IF q.effect = "debit" THEN Debit(q.snap, q.amount)
                                   ELSE Credit(q.snap, q.amount) IN
  /\ InFlight(r)
  /\ q.kind = "update"
  /\ IF q.effect = "none"
       THEN UNCHANGED <<balance, ledger, serial>>
       ELSE /\ balance' = [balance EXCEPT ![a] = new]
            /\ serial' = [serial EXCEPT ![a] = @ + delta]
            /\ ledger' = [ledger EXCEPT ![q.tx] =
                            Applied(@, a, balance[a], new, q.effect = "debit")]
  /\ req' = [req EXCEPT ![r] = IdleReq]
  /\ last' = Response("update", q.user, "none", a, q.amount, q.tx, "ok")
  /\ UNCHANGED <<users, transactions>>
  /\ UNCHANGED authVars

\* ------------------------------------------------- PATCH /banks/{number}
update_bank_account_balance ==
  \E u \in DOMAIN users, account_number \in AccountNumbers \cup {NoAccount},
     new_balance \in FundValues :
    IF get_current_user(u) # "ok"
      THEN Denied("fund", u, "none", account_number, new_balance)
    ELSE IF ~IsStaff(u)
      THEN Raise("fund", u, "none", account_number, new_balance, "InsufficientPermission")
    ELSE IF get_bank_by_account_number(account_number) = NoAccount
      THEN Raise("fund", u, "none", account_number, new_balance, "DebitCardNotFound")
    ELSE /\ balance' = [balance EXCEPT ![account_number] = new_balance]
         /\ serial' = [serial EXCEPT ![account_number] = new_balance]
         /\ last' = Response("fund", u, "none", account_number, new_balance, NoTx, "ok")
         /\ UNCHANGED <<users, transactions, req, ledger>>
         /\ UNCHANGED authVars

\* ------------------------------------------------------- specifications
\* One handler at a time: the endpoints of the transaction engine, called by
\* a customer and a manager, on one account.
Next ==
  \/ make_domestic_transfers("r1", MaxTx)
  \/ make_domestic_transfers_debit("r1")
  \/ make_international_transfers("r1", MaxTx)
  \/ make_international_transfers_debit("r1")
  \/ withdraw_from_balance("r1", MaxTx)
  \/ withdraw_from_balance_debit("r1")
  \/ Cancel("r1")
  \/ update_transaction("r1")
  \/ update_transaction_balance("r1")
  \/ create_transaction_record(MaxTx)

Spec == Init /\ [][Next]_vars

\* Two handlers in flight together: the money-moving endpoints, by one
\* customer, on one funded account.
NextConcurrent ==
  \E r \in Requests :
    \/ make_domestic_transfers(r, MaxRaceTx)
    \/ make_domestic_transfers_debit(r)
    \/ make_international_transfers(r, MaxRaceTx)
    \/ make_international_transfers_debit(r)
    \/ withdraw_from_balance(r, MaxRaceTx)
    \/ withdraw_from_balance_debit(r)
    \/ Cancel(r)

SpecConcurrent == InitConcurrent /\ [][NextConcurrent]_vars

\* ------------------------------------------------------- token service
\* a bearer string that is not a JWT signed with the server's key
Forged == [forged |-> TRUE]

\* a verification string that the serializer did not sign
Garbage == <<"unsigned", "nobody">>

\* serializer.loads: the signed dict, None for anything else
decode_url_safe_token(token) ==
  IF token[1] = "email-configuration" THEN [email |-> token[2]] ELSE None

\* a jti that is the same for every token
NewJti_Fixed(issued) == 1

\* str(uuid.uuid4()): a value no issued token carries
NewJti(issued) == Cardinality(issued) + 1

\* the payload of the JWT that create_access_token signs
create_access_token(user_data, expiry, refresh, jti) ==
  [user |-> user_data, exp |-> clock + expiry, jti |-> jti, refresh |-> refresh]

\* jwt.decode: the payload when the signature is the server's and exp has not
\* passed
decode_token(token) ==
  IF token = Forged THEN None
  ELSE IF token.exp <= clock THEN None
  ELSE token

\* the key set for the jti and for the jti issued after it
add_jti_to_blocklist_Pair(store, jti) ==
  [j \in DOMAIN store \cup {jti, jti + 1} |->
     IF j \in {jti, jti + 1} THEN clock + JTI_EXPIRY ELSE store[j]]

\* the key set with a time to live of half an hour
add_jti_to_blocklist_ShortTtl(store, jti) ==
  [j \in DOMAIN store \cup {jti} |-> IF j = jti THEN clock + HalfHour ELSE store[j]]

\* redis_client.set(jti, "", ex=JTI_EXPIRY)
add_jti_to_blocklist(store, jti) ==
  [j \in DOMAIN store \cup {jti} |-> IF j = jti THEN clock + JTI_EXPIRY ELSE store[j]]

\* redis_client.exists(jti) == 1
token_in_blocklist(jti) == jti \in DOMAIN blocklist /\ clock < blocklist[jti]

\* verify_token_data of the two bearers
verify_token_data(token_data, wantRefresh) ==
  IF ~wantRefresh /\ token_data.refresh THEN "AccessTokenRequired"
  ELSE IF wantRefresh /\ ~token_data.refresh THEN "RefreshTokenRequired"
  ELSE "ok"

\* TokenBearer.__call__ with the kind read from the unverified payload first
TokenBearer_KindFirst(token, wantRefresh) ==
  IF token = Forged THEN "InvalidToken"
  ELSE IF verify_token_data(token, wantRefresh) # "ok"
    THEN verify_token_data(token, wantRefresh)
  ELSE IF decode_token(token) = None THEN "InvalidToken"
  ELSE IF token_in_blocklist(decode_token(token).jti) THEN "InvalidToken"
  ELSE "ok"

\* TokenBearer.__call__ without the check of the jti against the blocklist
TokenBearer_NoBlocklist(token, wantRefresh) ==
  IF decode_token(token) = None THEN "InvalidToken"
  ELSE verify_token_data(decode_token(token), wantRefresh)

\* TokenBearer.__call__ without the check of the token's kind
TokenBearer_AnyKind(token, wantRefresh) ==
  IF decode_token(token) = None THEN "InvalidToken"
  ELSE IF token_in_blocklist(decode_token(token).jti) THEN "InvalidToken"
  ELSE "ok"

\* TokenBearer.__call__: decode, validity, blocklist, kind
TokenBearer(token, wantRefresh) ==
  IF decode_token(token) = None THEN "InvalidToken"
  ELSE IF token_in_blocklist(decode_token(token).jti) THEN "InvalidToken"
  ELSE verify_token_data(decode_token(token), wantRefresh)

AccessTokenBearer(token) == TokenBearer(token, FALSE)

RefreshTokenBearer(token) == TokenBearer(token, TRUE)

\* what a client may put in the Authorization header
Bearers == tokens \cup {Forged}

Reply(kind, token, email, secret, ip, result, issued) ==
  [kind |-> kind, token |-> token, email |-> email, secret |-> secret,
   ip |-> ip, result |-> result, issued |-> issued]

\* an auth handler that answers without writing anything
Answer(kind, token, email, secret, ip, result) ==
  /\ reply' = Reply(kind, token, email, secret, ip, result, {})
  /\ UNCHANGED <<users, clock, tokens, blocklist, attempts, seen, verification_code>>
  /\ UNCHANGED engineVars

\* an auth request that get_current_user refuses before the handler runs
Refused(kind, token, u, secret, ip) ==
  /\ reply' = Reply(kind, token, u, secret, ip, get_current_user(u), {})
  /\ verification_code' = AfterCurrentUser(u)
  /\ UNCHANGED <<users, clock, tokens, blocklist, attempts, seen>>
  /\ UNCHANGED engineVars

Ticks(t) == (t \div 172800) + ((t % 172800) \div HalfHour)

\* time passes
Tick ==
  \E step \in ClockSteps :
    /\ Ticks(clock) < MaxTicks
    /\ clock' = clock + step
    /\ UNCHANGED <<users, tokens, blocklist, attempts, reply, seen, verification_code>>
    /\ UNCHANGED engineVars

\* POST /signup
create_user_Account ==
  \E email \in Emails, password \in Passwords :
    IF email \in DOMAIN users
      THEN Answer("signup", NoToken, email, password, "ip0", "UserAlreadyExists")
    ELSE /\ users' = [e \in DOMAIN users \cup {email} |->
                        IF e = email THEN create_user("user", "d1", password, "ip0")
                        ELSE users[e]]
         /\ seen' = [e \in DOMAIN users \cup {email} |-> IF e = email THEN {} ELSE seen[e]]
         /\ verification_code' = send_verification_code(verification_code, email)
         /\ reply' = Reply("signup", NoToken, email, password, "ip0", "ok", {})
         /\ UNCHANGED <<clock, tokens, blocklist, attempts>>
         /\ UNCHANGED engineVars

\* GET /verify-email/{token}
verify_user_account ==
  \E token \in {generate_verification_code(e) : e \in DOMAIN users} \cup {Garbage} :
    LET token_data == decode_url_safe_token(token)
        user_email == token_data.email IN
    IF token_data = None
      THEN Answer("verify-email", NoToken, "none", "unsigned", "none", "AttributeError")
    ELSE IF user_email \notin DOMAIN users
      THEN Answer("verify-email", NoToken, user_email, "none", "none", "UserNotFound")
    ELSE /\ users' = [users EXCEPT ![user_email] = save_verified_email(@)]
         /\ reply' = Reply("verify-email", NoToken, user_email, "none", "none", "ok", {})
         /\ UNCHANGED <<clock, tokens, blocklist, attempts, seen, verification_code>>
         /\ UNCHANGED engineVars

\* the outcome of POST /login before any token is made
LoginGate(email, password) ==
  IF email \notin DOMAIN users THEN "InvalidCredentials"
  ELSE IF ~users[email].verified THEN "verification code sent"
  ELSE IF ~verify_password(password, users[email].password_hash) THEN "InvalidCredentials"
  ELSE "ok"

\* POST /login
login_users ==
  \E email \in Emails, password \in Passwords :
    LET access_token ==
          create_access_token([email |-> email, role |-> users[email].role],
                              ACCESS_TOKEN_EXPIRY, FALSE, NewJti(tokens))
        refresh_token ==
          create_access_token([email |-> email],
                              REFRESH_TOKEN_EXPIRY * SecondsPerDay, TRUE,
                              NewJti(tokens \cup {access_token})) IN
    IF LoginGate(email, password) = "verification code sent"
      THEN /\ reply' = Reply("login", NoToken, email, password, "none",
                             LoginGate(email, password), {})
           /\ verification_code' = send_verification_code(verification_code, email)
           /\ UNCHANGED <<users, clock, tokens, blocklist, attempts, seen>>
           /\ UNCHANGED engineVars
    ELSE IF LoginGate(email, password) # "ok"
      THEN Answer("login", NoToken, email, password, "none", LoginGate(email, password))
    ELSE /\ Cardinality(tokens) + 2 <= MaxTokens
         /\ tokens' = tokens \cup {access_token, refresh_token}
         /\ reply' = Reply("login", NoToken, email, password, "none", "ok",
                           {access_token, refresh_token})
         /\ UNCHANGED <<users, clock, blocklist, attempts, seen, verification_code>>
         /\ UNCHANGED engineVars

\* GET /refresh-token
get_new_access_token ==
  \E token \in Bearers :
    LET new_access_token ==
          create_access_token(token.user, ACCESS_TOKEN_EXPIRY, FALSE, NewJti(tokens)) IN
    IF RefreshTokenBearer(token) # "ok"
      THEN Answer("refresh-token", token, "none", "none", "none", RefreshTokenBearer(token))
    ELSE IF ~(token.exp > clock)
      THEN Answer("refresh-token", token, "none", "none", "none", "InvalidToken")
    ELSE /\ Cardinality(tokens) + 1 <= MaxTokens
         /\ tokens' = tokens \cup {new_access_token}
         /\ reply' = Reply("refresh-token", token, "none", "none", "none", "ok",
                           {new_access_token})
         /\ UNCHANGED <<users, clock, blocklist, attempts, seen, verification_code>>
         /\ UNCHANGED engineVars

\* GET /logout
revoke_token ==
  \E token \in Bearers :
    IF AccessTokenBearer(token) # "ok"
      THEN Answer("logout", token, "none", "none", "none", AccessTokenBearer(token))
    ELSE /\ blocklist' = add_jti_to_blocklist(blocklist, token.jti)
         /\ reply' = Reply("logout", token, "none", "none", "none", "ok", {})
         /\ UNCHANGED <<users, clock, tokens, attempts, seen, verification_code>>
         /\ UNCHANGED engineVars

\* GET /users/me: an endpoint behind get_current_user and the role checker
\* that admits every role
get_current_active_user ==
  \E token \in Bearers :
    IF AccessTokenBearer(token) # "ok"
      THEN Answer("me", token, "none", "none", "none", AccessTokenBearer(token))
    ELSE IF get_current_user(token.user.email) # "ok"
      THEN Refused("me", token, token.user.email, "none", "none")
    ELSE Answer("me", token, token.user.email, "none", "none", "ok")

\* a verified customer; anyone may sign up
InitTokens ==
  /\ users = [u \in {"alice"} |-> NewUser("user", "d1")]
  /\ balance = [a \in {"acc1"} |-> 0]
  /\ transactions = <<>>
  /\ req = [r \in Requests |-> IdleReq]
  /\ last = NoResponse
  /\ ledger = <<>>
  /\ serial = balance
  /\ AuthIdle

NextTokens ==
  \/ Tick
  \/ create_user_Account
  \/ verify_user_account
  \/ login_users
  \/ get_new_access_token
  \/ revoke_token
  \/ get_current_active_user

SpecTokens == InitTokens /\ [][NextTokens]_vars

\* --------------------------------------------------------- trust guard
\* the Redis key new_ip:{user.uid}:{new_ip}
AttemptsKey(user_id, new_ip) == <<user_id, new_ip>>

\* the count written under one key for every address of the user
store_new_ip_AllIps(store, user_id, new_ip, count) ==
  [raised |-> "none",
   store |-> [k \in DOMAIN store \cup {AttemptsKey(user_id, ip) : ip \in Ips} |->
                IF k[1] = user_id THEN count ELSE store[k]]]

\* redis_client.set(key, attempts, exp=SECURITY_EXPIRY): set() has no
\* parameter `exp`, the call raises and writes nothing
store_new_ip(store, user_id, new_ip, count) ==
  [raised |-> "TypeError", store |-> store]

\* the guard without the comparison with the user's last-known address
block_ip_attempts_AnyIp(u, new_ip) ==
  LET key == AttemptsKey(u, new_ip)
      calc_attempts == attempts[key] + 1
      stored == store_new_ip(attempts, u, new_ip, calc_attempts) IN
  IF key \notin DOMAIN attempts
    THEN [outcome |-> "AttributeError", store |-> attempts]
  ELSE IF calc_attempts < 4
    THEN IF stored.raised # "none"
           THEN [outcome |-> stored.raised, store |-> stored.store]
           ELSE [outcome |-> "allow", store |-> stored.store]
  ELSE [outcome |-> "block", store |-> attempts]

\* block_ip_attempts: the decision (allow = False, block = True) or the
\* exception raised, and the counters afterwards.  redis_client.get returns
\* None for a key that does not exist, and None has no decode().
block_ip_attempts(u, new_ip) ==
  LET key == AttemptsKey(u, new_ip)
      calc_attempts == attempts[key] + 1
      stored == store_new_ip(attempts, u, new_ip, calc_attempts) IN
  IF users[u].ip_address = new_ip
    THEN [outcome |-> "allow", store |-> attempts]
  ELSE IF key \notin DOMAIN attempts
    THEN [outcome |-> "AttributeError", store |-> attempts]
  ELSE IF calc_attempts < 4
    THEN IF stored.raised # "none"
           THEN [outcome |-> stored.raised, store |-> stored.store]
           ELSE [outcome |-> "allow", store |-> stored.store]
  ELSE [outcome |-> "block", store |-> attempts]

\* UserService.block_user: only a manager's or an administrator's own row is
\* ever changed, for anyone else it raises 403
block_user(u, status) ==
  IF ~IsStaff(u) THEN [raised |-> "NotPermitted", users |-> users]
  ELSE [raised |-> "none", users |-> [users EXCEPT ![u].is_blocked = status]]

\* POST /transfer-pin by user u from ip_address
TransferPin(u, ip_address, pin) ==
    LET guard == block_ip_attempts(u, ip_address)
        blocked == block_user(u, TRUE)
        result ==
          IF guard.outcome = "block"
            THEN IF blocked.raised # "none" THEN blocked.raised ELSE "UserBlocked"
          ELSE IF guard.outcome # "allow" THEN guard.outcome
          ELSE IF verify_password(pin, users[u].transfer_pin_hash) THEN "ok"
          ELSE "InvalidTransactionPin" IN
    IF get_current_user(u) # "ok"
      THEN Refused("transfer-pin", NoToken, u, pin, ip_address)
    ELSE /\ attempts' = guard.store
         /\ users' = IF guard.outcome = "block" THEN blocked.users ELSE users
         /\ seen' = IF users[u].ip_address = ip_address THEN seen
                    ELSE [seen EXCEPT ![u] = @ \cup {ip_address}]
         /\ reply' = Reply("transfer-pin", NoToken, u, pin, ip_address, result, {})
         /\ UNCHANGED <<clock, tokens, blocklist, verification_code>>
         /\ UNCHANGED engineVars

verify_transfer_pin ==
  \E u \in DOMAIN users, ip_address \in Ips, pin \in Pins :
    TransferPin(u, ip_address, pin)

\* POST /transfer-pin from the address the user signed up at
verify_transfer_pin_home ==
  \E u \in DOMAIN users, pin \in Pins :
    TransferPin(u, users[u].ip_address, pin)

\* what Redis may hold of attempt counters when the server starts: nothing,
\* or one counter left under a key of an unfamiliar address
GuardStores ==
  {[k \in {} |-> 0]} \cup
  {[k \in {AttemptsKey(u, ip)} |-> n] :
     u \in {"alice", "mgr"}, ip \in Ips \ {"ip0"}, n \in 1 .. 3}

\* a customer and a manager, both last seen at ip0
InitGuard ==
  /\ users = [u \in {"alice", "mgr"} |->
                IF u = "mgr" THEN NewUser("manager", "d1") ELSE NewUser("user", "d1")]
  /\ balance = [a \in {"acc1"} |-> 0]
  /\ transactions = <<>>
  /\ req = [r \in Requests |-> IdleReq]
  /\ last = NoResponse
  /\ ledger = <<>>
  /\ serial = balance
  /\ clock = 0
  /\ tokens = {}
  /\ blocklist = [j \in {} |-> 0]
  /\ attempts \in GuardStores
  /\ reply = NoReply
  /\ seen = [u \in DOMAIN users |-> {}]
  /\ verification_code = [u \in {} |-> None]

NextGuard == verify_transfer_pin

SpecGuard == InitGuard /\ [][NextGuard]_vars

\* ------------------------------------------------------ access control
\* TransactionService.get_all_transactions: the rows of the manager's domain
\* for a manager, every row for anyone else
get_all_transactions(u) ==
  IF users[u].role = "manager"
    THEN {t \in DOMAIN transactions : transactions[t].domain = users[u].domain}
    ELSE DOMAIN transactions

\* TransactionService.get_transaction_by_uid: the row, NoTx for None
get_transaction_by_uid(u, uid) ==
  IF users[u].role \notin {"manager", "admin"}
    THEN IF uid \in DOMAIN transactions /\ transactions[uid].user_id = u
           THEN uid ELSE NoTx
    ELSE IF uid \in DOMAIN transactions THEN uid ELSE NoTx

\* GET /transactions
all_transactions ==
  \E u \in DOMAIN users :
    IF get_current_user(u) # "ok"
      THEN Denied("list", u, "none", NoAccount, 0)
    ELSE /\ last' = [Response("list", u, "none", NoAccount, 0, NoTx, "ok")
                       EXCEPT !.rows = get_all_transactions(u)]
         /\ UNCHANGED <<users, balance, transactions, req, ledger, serial>>
         /\ UNCHANGED authVars

\* GET /transactions/{uid}
get_transaction ==
  \E u \in DOMAIN users, uid \in 1 .. (Len(transactions) + 1) :
    LET transaction == get_transaction_by_uid(u, uid) IN
    IF get_current_user(u) # "ok"
      THEN Denied("detail", u, "none", NoAccount, 0)
    ELSE /\ last' = IF transaction = NoTx
                      THEN Response("detail", u, "none", NoAccount, 0, uid,
                                    "TransactionNotFound")
                      ELSE [Response("detail", u, "none", NoAccount, 0, uid, "ok")
                              EXCEPT !.rows = {transaction}]
         /\ UNCHANGED <<users, balance, transactions, req, ledger, serial>>
         /\ UNCHANGED authVars

\* the bodies PATCH /users/{uid} is called with
UpdateData == {[is_blocked |-> TRUE], [is_blocked |-> FALSE], [role |-> "admin"]}

\* UserService.update_user
update_user(user, user_data) ==
  IF "transfer_pin" \in DOMAIN user_data
    THEN [user EXCEPT !.transfer_pin_hash = generate_passwd_hash(user_data.transfer_pin)]
  ELSE IF "password" \in DOMAIN user_data
    THEN [user EXCEPT !.password_hash = generate_passwd_hash(user_data.password)]
  ELSE [k \in DOMAIN user |-> IF k \in DOMAIN user_data THEN user_data[k] ELSE user[k]]

\* PATCH /users/{uid}: admitted for staff and for the user's own uid, and then
\* applied to the row of the actor, whatever uid is
update_user_by_uid ==
  \E actor \in DOMAIN users, uid \in DOMAIN users, update_data \in UpdateData :
    IF get_current_user(actor) # "ok"
      THEN Refused("update-user", NoToken, actor, uid, "none")
    ELSE IF ~(IsStaff(actor) \/ actor = uid)
      THEN Answer("update-user", NoToken, actor, uid, "none", "InsufficientPermission")
    ELSE /\ users' = [users EXCEPT ![actor] = update_user(@, update_data)]
         /\ reply' = Reply("update-user", NoToken, actor, uid, "none", "ok", {})
         /\ UNCHANGED <<clock, tokens, blocklist, attempts, seen, verification_code>>
         /\ UNCHANGED engineVars

\* the query parameter block of PATCH /users/{uid}/block, as the reply records it
BlockWord(block) == IF block THEN "block" ELSE "unblock"

\* PATCH /users/{uid}/block: the role checker admits every role; the reply
\* records the actor, the target and the parameter block
patch_user_block ==
  \E actor \in DOMAIN users, uid \in DOMAIN users \cup {"nobody"}, block \in BOOLEAN :
    LET blocked_user == block_user(uid, block) IN
    IF get_current_user(actor) # "ok"
      THEN Refused("block", NoToken, actor, uid, BlockWord(block))
    ELSE IF uid \notin DOMAIN users
      THEN Answer("block", NoToken, actor, uid, BlockWord(block), "UserNotFound")
    ELSE IF blocked_user.raised # "none"
      THEN Answer("block", NoToken, actor, uid, BlockWord(block), blocked_user.raised)
    ELSE /\ users' = blocked_user.users
         /\ reply' = Reply("block", NoToken, actor, uid, BlockWord(block), "ok", {})
         /\ UNCHANGED <<clock, tokens, blocklist, attempts, seen, verification_code>>
         /\ UNCHANGED engineVars

\* a customer, a customer who has not verified an email, and a manager whom
\* PATCH /users/{uid}/block may have blocked; one funded bank account
InitAccess ==
  /\ users \in {[u \in {"alice", "bob", "mgr"} |->
                   IF u = "mgr"
                     THEN [NewUser("manager", "d1") EXCEPT !.is_blocked = is_blocked]
                   ELSE IF u = "bob" THEN create_user("user", "d1", "secret", "ip0")
                   ELSE NewUser("user", "d1")] : is_blocked \in BOOLEAN}
  /\ balance = [a \in {"acc1"} |-> MaxFund]
  /\ transactions = <<>>
  /\ req = [r \in Requests |-> IdleReq]
  /\ last = NoResponse
  /\ ledger = <<>>
  /\ serial = balance
  /\ AuthIdle

\* the operations behind get_current_user that create, update and read
\* transactions, and the PIN verification, one handler at a time
NextAccess ==
  \/ withdraw_from_balance("r1", MaxTx)
  \/ withdraw_from_balance_debit("r1")
  \/ create_transaction_record(MaxTx)
  \/ update_transaction("r1")
  \/ update_transaction_balance("r1")
  \/ all_transactions
  \/ get_transaction
  \/ verify_transfer_pin_home

SpecAccess == InitAccess /\ [][NextAccess]_vars

\* a customer, a customer who has not verified an email, and a manager
InitUsers ==
  /\ users = [u \in {"alice", "bob", "mgr"} |->
                IF u = "mgr" THEN NewUser("manager", "d1")
                ELSE IF u = "bob" THEN create_user("user", "d1", "secret", "ip0")
                ELSE NewUser("user", "d1")]
  /\ balance = [a \in {"acc1"} |-> 0]
  /\ transactions = <<>>
  /\ req = [r \in Requests |-> IdleReq]
  /\ last = NoResponse
  /\ ledger = <<>>
  /\ serial = balance
  /\ AuthIdle

\* the endpoints that write the users table
NextUsers ==
  \/ verify_transfer_pin_home
  \/ update_user_by_uid
  \/ patch_user_block

SpecUsers == InitUsers /\ [][NextUsers]_vars

\* the endpoints that write a bank account or a user, and withdrawals, by a
\* customer and a manager
NextFunds ==
  \/ update_bank_account_balance
  \/ update_user_by_uid
  \/ withdraw_from_balance("r1", MaxTx)
  \/ withdraw_from_balance_debit("r1")

SpecFunds == Init /\ [][NextFunds]_vars

\* BankAccount.user_id: create_bank_account writes the user of the business
\* profile the account is opened for
BankAccountUser == [a \in {"acc1", "acc2"} |-> IF a = "acc1" THEN "alice" ELSE "bob"]

\* two customers, each with one funded bank account
InitOwners ==
  /\ users = [u \in {"alice", "bob"} |-> NewUser("user", "d1")]
  /\ balance = [a \in DOMAIN BankAccountUser |-> MaxFund]
  /\ transactions = <<>>
  /\ req = [r \in Requests |-> IdleReq]
  /\ last = NoResponse
  /\ ledger = <<>>
  /\ serial = balance
  /\ AuthIdle

NextOwners ==
  \/ make_domestic_transfers("r1", MaxTx)
  \/ make_domestic_transfers_debit("r1")
  \/ make_international_transfers("r1", MaxTx)
  \/ make_international_transfers_debit("r1")
  \/ withdraw_from_balance("r1", MaxTx)
  \/ withdraw_from_balance_debit("r1")

SpecOwners == InitOwners /\ [][NextOwners]_vars

\* a customer of one domain and a manager of another; one funded bank account
InitDomains ==
  /\ users = [u \in {"alice", "mgr"} |->
                IF u = "mgr" THEN NewUser("manager", "d1") ELSE NewUser("user", "d2")]
  /\ balance = [a \in {"acc1"} |-> MaxFund]
  /\ transactions = <<>>
  /\ req = [r \in Requests |-> IdleReq]
  /\ last = NoResponse
  /\ ledger = <<>>
  /\ serial = balance
  /\ AuthIdle

\* withdrawals, and the endpoints that list, read and update transactions
NextDomains ==
  \/ withdraw_from_balance("r1", MaxTx)
  \/ withdraw_from_balance_debit("r1")
  \/ update_transaction("r1")
  \/ update_transaction_balance("r1")
  \/ all_transactions
  \/ get_transaction

SpecDomains == InitDomains /\ [][NextDomains]_vars

\* ================================================================ claims
Rows == 1 .. Len(transactions)

Debited(t) == ledger[t].debits >= 1

Positive(t) == transactions[t].amount > 0

\* no handler is working on the transaction and none was cut short on it
Settled(t) == ~Busy(t) /\ ~ledger[t].cancelled

\* C1: no double-spend.  Two withdraw / domestic-transfer requests whose funds
\* checks were made against the same balance b of the same account, while
\* neither had yet written it, and whose amounts add up to more than b, never
\* both succeed; when one of them has succeeded and the other has ended, the
\* balance is b minus the amount of the one that succeeded.
C1_NoDoubleSpend ==
  \A t \in Rows : \A o \in ledger[t].overlap :
    LET s == o.tx
        b == o.mine
        a == ledger[t].account IN
    (/\ ledger[t].origin \in {"domestic", "withdraw"}
     /\ o.theirs = b
     /\ transactions[t].amount + transactions[s].amount > b)
    => /\ ~(Debited(t) /\ Debited(s))
       /\ (Debited(t) /\ ~Debited(s) /\ ~Busy(s) /\ Len(transactions) = 2)
            => balance[a] = b - transactions[t].amount
       /\ (Debited(s) /\ ~Debited(t) /\ ~Busy(t) /\ Len(transactions) = 2)
            => balance[a] = b - transactions[s].amount

\* C2: no lost update.  Once no handler is in flight, every balance equals
\* the initial balance plus the deltas of the operations that were answered
\* with success.
C2_NoLostUpdate ==
  (/\ \A r \in Requests : ~InFlight(r)
   /\ \A t \in Rows : Positive(t))
  => balance = serial

\* C3: unit-of-work atomicity.  For a withdrawal or domestic transfer that
\* no status update has touched and that no handler is still working on, the
\* completed row is persisted if and only if the account's balance has been
\* decremented by the row's amount, also when the request was cancelled
\* between its two commits.
C3_UnitOfWork ==
  \A t \in Rows :
    (/\ ledger[t].origin \in {"domestic", "withdraw"}
     /\ ledger[t].hist = <<>>
     /\ Positive(t)
     /\ ~Busy(t))
    => (transactions[t].status = "completed"
          <=> /\ ledger[t].debits = 1
              /\ ledger[t].net[ledger[t].account] = 0 - transactions[t].amount)

PositiveCustomerTraffic ==
  \A t \in Rows : ledger[t].origin # "create" /\ Positive(t)

\* C4: balance non-negativity.  Starting from non-negative balances, after
\* any sequence of withdrawals, domestic and international transfers of
\* positive amounts and status updates of them, every balance is >= 0.
C4_NonNegative ==
  PositiveCustomerTraffic => \A a \in AccountNumbers : balance[a] >= 0

MovesMoneyNow(kind) == kind \in {"withdraw", "domestic"}

TypeOfKind(kind) == IF kind = "withdraw" THEN "withdrawal" ELSE "transfer"

C5_Step ==
  LET q == req["r1"]
      q2 == req'["r1"]
      a == q.account_number IN
  \* the request is accepted: exactly one row, completed, of the right type
  /\ (~InFlight("r1") /\ q2.pc = "await_balance" /\ MovesMoneyNow(q2.kind))
       => /\ Len(transactions') = Len(transactions) + 1
          /\ SubSeq(transactions', 1, Len(transactions)) = transactions
          /\ transactions'[q2.tx].status = "completed"
          /\ transactions'[q2.tx].transaction_type = TypeOfKind(q2.kind)
          /\ transactions'[q2.tx].amount = q2.amount
          /\ q2.tx = Len(transactions')
  \* the request is answered: the balance is the previous one minus amount
  /\ (InFlight("r1") /\ MovesMoneyNow(q.kind) /\ q2.pc = "idle" /\ last'.result = "ok")
       => /\ balance' = [balance EXCEPT ![a] = balance[a] - q.amount]
          /\ transactions' = transactions
          /\ transactions[q.tx].status = "completed"
          /\ last'.tx = q.tx
  \* the request is refused: one of the three preconditions does not hold
  /\ (/\ last' # last
      /\ MovesMoneyNow(last'.kind)
      /\ last'.result \notin {"ok", "Forbidden", "TypeError"})
       => /\ ~(/\ verify_password(last'.pin, users[last'.user].transfer_pin_hash)
               /\ last'.account_number \in AccountNumbers
               /\ balance[last'.account_number] >= last'.amount)
          /\ UNCHANGED <<balance, transactions>>

\* C5: a withdraw or domestic-transfer request with a correct PIN, an
\* existing account and balance >= amount is not refused; it creates exactly
\* one transaction, completed, of type withdrawal respectively transfer, and
\* leaves the balance equal to the previous balance minus amount (one handler
\* at a time).
C5_CompletesAndDebits == [][C5_Step]_vars

C5_Witness ==
  /\ last.kind = "withdraw"
  /\ last.result = "ok"
  /\ last.amount = 2
  /\ balance[last.account_number] = 0
  /\ Len(transactions) = 1
  /\ transactions[last.tx].status = "completed"
  /\ transactions[last.tx].transaction_type = "withdrawal"

\* C6: a successful international-transfer request leaves a pending row and
\* every balance unchanged, as long as no status update has touched the row.
C6_PendingNoEffect ==
  \A t \in Rows :
    (/\ ledger[t].origin = "international"
     /\ ledger[t].hist = <<>>
     /\ Positive(t)
     /\ Settled(t))
    => /\ transactions[t].status = "pending"
       /\ ledger[t].net = ZeroNet
       /\ ledger[t].debits = 0

\* C7: after an international transfer of amount A is created and then
\* transitioned once to completed, the account has been debited by A exactly
\* once over creation plus completion.
C7_DebitedOnce ==
  \A t \in Rows :
    (/\ ledger[t].origin = "international"
     /\ ledger[t].hist = <<"completed">>
     /\ Positive(t)
     /\ Settled(t))
    => ledger[t].net[ledger[t].account] = 0 - transactions[t].amount

\* C8: at-most-once balance effect.  Over any sequence of status updates a
\* transaction's debit is applied at most once and its credit at most once.
C8_AtMostOnce ==
  \A t \in Rows : Positive(t) => ledger[t].debits <= 1 /\ ledger[t].credits <= 1

\* the debit of a transfer made through the API was applied when the row
\* became completed, and the row was then marked failed
DebitedThenFailed(t) ==
  \/ /\ ledger[t].origin = "domestic"
     /\ ledger[t].debits >= 1
     /\ ledger[t].hist = <<"failed">>
  \/ /\ ledger[t].origin = "international"
     /\ ledger[t].hist = <<"completed", "failed">>

\* C9: debit/credit symmetry.  For a transfer created through the API whose
\* debit was applied when it became completed, the transition to failed credits
\* the account once and the transaction's net effect on the balance is zero.
C9_Symmetry ==
  \A t \in Rows :
    (DebitedThenFailed(t) /\ Positive(t) /\ Settled(t))
    => /\ ledger[t].credits = 1
       /\ ledger[t].net = ZeroNet

\* C10: the PIN gate precedes every other check.  A withdraw, domestic or
\* international transfer request of an admitted user whose PIN does not
\* match the user's transfer-PIN hash is answered InvalidTransactionPin,
\* whether or not the account exists or holds the amount.
C10_PinFirst ==
  (/\ last.kind \in {"withdraw", "domestic", "international"}
   /\ last.result \notin {"Forbidden", "TypeError"}
   /\ ~verify_password(last.pin, users[last.user].transfer_pin_hash))
  => last.result = "InvalidTransactionPin"

C10_Witness ==
  /\ last.kind \in {"withdraw", "domestic", "international"}
  /\ last.result = "InvalidTransactionPin"
  /\ last.account_number \in AccountNumbers
  /\ balance[last.account_number] < last.amount

TransferErrors == {"InvalidTransactionPin", "BankAccountNotFound", "InsufficientFunds"}

C11_Step ==
  (/\ last' # last
   /\ last'.kind \in {"withdraw", "domestic", "international"}
   /\ last'.result \in TransferErrors)
  => /\ transactions' = transactions
     /\ balance' = balance
     /\ last'.tx = NoTx

\* C11: state unchanged on failure.  A withdraw, domestic-transfer or
\* international-transfer request answered InvalidTransactionPin,
\* BankAccountNotFound or InsufficientFunds creates no transaction row and
\* leaves every balance as it was.
C11_FailureChangesNothing == [][C11_Step]_vars

C11_Witness ==
  /\ last.kind = "withdraw"
  /\ last.result = "InsufficientFunds"
  /\ last.amount = 2
  /\ balance[last.account_number] = 1
  /\ transactions = <<>>

\* the token is one the server issued, unexpired and not revoked
Usable(T) == T \in tokens /\ T.exp > clock /\ ~token_in_blocklist(T.jti)

Jtis(issued) == {t.jti : t \in issued}

C12_Step ==
  LET T == reply'.token IN
  (reply' # reply /\ Usable(T))
  => /\ (T.refresh /\ reply'.kind \in {"logout", "me"})
          => /\ reply'.result = "AccessTokenRequired"
             /\ UNCHANGED <<users, tokens, blocklist>>
     /\ (~T.refresh /\ reply'.kind = "refresh-token")
          => /\ reply'.result = "RefreshTokenRequired"
             /\ reply'.issued = {}
             /\ UNCHANGED <<users, tokens, blocklist>>

\* C12: token kind enforcement.  A valid, non-revoked refresh token presented
\* to an endpoint that requires an access token is answered
\* AccessTokenRequired, a valid, non-revoked access token presented to the
\* refresh-token endpoint is answered RefreshTokenRequired, and in neither case
\* does the endpoint do anything.
C12_KindEnforced == [][C12_Step]_vars

C12_Witness ==
  /\ reply.kind = "logout"
  /\ reply.result = "AccessTokenRequired"
  /\ Usable(reply.token)
  /\ reply.token.refresh

C13_Step ==
  LET T == reply'.token IN
  (/\ reply' # reply
   /\ reply'.kind \in {"logout", "me", "refresh-token"}
   /\ T \in tokens
   /\ T.jti \in DOMAIN blocklist)
  => /\ reply'.result = "InvalidToken"
     /\ reply'.issued = {}

\* C13: after logout has succeeded with access token T, every later request
\* that presents T to a token-protected endpoint is answered InvalidToken, also
\* while T is correctly signed and unexpired.
C13_RevokedRejected == [][C13_Step]_vars

C13_Witness ==
  /\ reply.kind = "me"
  /\ reply.result = "InvalidToken"
  /\ reply.token \in tokens
  /\ reply.token.jti \in DOMAIN blocklist
  /\ reply.token.exp > clock

C14_Step ==
  /\ \A j \in DOMAIN blocklist :
       j \in DOMAIN blocklist' /\ blocklist'[j] >= blocklist[j]
  /\ \A T \in tokens' :
       T.jti \in DOMAIN blocklist'
       => (T.exp <= clock' \/ clock' < blocklist'[T.jti])

\* C14: revocation lasts for the life of the token.  No step removes a jti
\* from the blocklist or shortens its time to live, and at no instant is a
\* revoked token both unexpired and absent from the blocklist.
C14_RevokedForLife == [][C14_Step]_vars

C14_Witness ==
  \E T \in tokens :
    /\ T.jti \in DOMAIN blocklist
    /\ T.exp <= clock
    /\ clock < blocklist[T.jti]

C15_Step ==
  LET T == reply'.token
      Good == Usable(T) /\ T.refresh IN
  (reply' # reply /\ reply'.kind = "refresh-token")
  => /\ (reply'.result = "ok") <=> Good
     /\ (reply'.result = "ok")
          => \E n \in reply'.issued :
               /\ reply'.issued = {n}
               /\ tokens' = tokens \cup {n}
               /\ n \notin tokens
               /\ ~n.refresh
               /\ n.jti \notin Jtis(tokens)
               /\ n.user = T.user
               /\ n.exp = clock + ACCESS_TOKEN_EXPIRY
     /\ (reply'.result # "ok") => (reply'.issued = {} /\ tokens' = tokens)

\* C15: the refresh-token endpoint returns a new access token (refresh flag
\* false, fresh jti, the subject claims of the presented token) exactly when
\* the presented token is a correctly signed, unexpired, non-revoked refresh
\* token; otherwise it fails and issues nothing.
C15_RefreshIssues == [][C15_Step]_vars

C15_Witness ==
  /\ reply.kind = "refresh-token"
  /\ reply.result = "ok"
  /\ Cardinality(reply.issued) = 1
  /\ reply.issued \subseteq tokens
  /\ reply.token.refresh

C16_Step ==
  LET e == reply'.email
      known == e \in DOMAIN users
      matches == known /\ verify_password(reply'.secret, users[e].password_hash)
      Good == known /\ users[e].verified /\ matches IN
  (reply' # reply /\ reply'.kind = "login")
  => /\ (reply'.issued # {}) <=> Good
     /\ Good => \E a, r \in reply'.issued :
                  /\ reply'.issued = {a, r}
                  /\ ~a.refresh
                  /\ r.refresh
                  /\ a.jti # r.jti
     /\ (known /\ ~users[e].verified) => reply'.issued = {}
     /\ (~known \/ ~matches) => reply'.result = "InvalidCredentials"

\* C16: login returns an access token and a refresh token with distinct jtis
\* if and only if the user exists, has a verified email and the password
\* matches; a user who signed up gets no token before verify-email; a wrong
\* password or an unknown email is answered InvalidCredentials, without a token.
C16_Login == [][C16_Step]_vars

\* this step is verify_transfer_pin evaluating the guard for user u at address ip
GuardEvaluated(u, ip) ==
  /\ get_current_user(u) = "ok"
  /\ reply'.kind = "transfer-pin"
  /\ reply'.email = u
  /\ reply'.ip = ip

\* the counter stored for (u, ip), 0 when there is none
Counter(store, u, ip) ==
  IF AttemptsKey(u, ip) \in DOMAIN store THEN store[AttemptsKey(u, ip)] ELSE 0

C17_Step ==
  \A u \in DOMAIN users, ip \in Ips :
    (GuardEvaluated(u, ip) /\ users[u].ip_address = ip) =>
      /\ block_ip_attempts(u, ip).outcome = "allow"
      /\ block_ip_attempts(u, ip).store = attempts
      /\ attempts' = attempts
      /\ users' = users
      /\ reply'.result \in {"ok", "InvalidTransactionPin"}

\* C17: when the observed IP equals the user's last-known IP, block_ip_attempts
\* returns allow (False) and changes no counter and no user state; the request
\* goes on to the PIN comparison.
C17_FamiliarOrigin == [][C17_Step]_vars

\* a PIN was verified for a request from the user's last-known address
C17_Witness ==
  /\ reply.kind = "transfer-pin"
  /\ reply.result = "ok"
  /\ reply.ip = users[reply.email].ip_address

C18_Step ==
  \A u \in DOMAIN users, ip \in Ips :
    (GuardEvaluated(u, ip) /\ users[u].ip_address # ip) =>
      LET n == Counter(attempts, u, ip) + 1 IN
      IF n < 4
        THEN /\ block_ip_attempts(u, ip).outcome = "allow"
             /\ Counter(attempts', u, ip) = n
        ELSE block_ip_attempts(u, ip).outcome = "block"

\* C18: from an unfamiliar address, an evaluation that finds n - 1 stored
\* attempts (none stored counts as 0) returns allow and leaves the counter of
\* (user, ip) equal to n for n = 1, 2, 3, and returns block for n >= 4.
C18_CountsToFour == [][C18_Step]_vars

C19_Step ==
  \A u \in DOMAIN users, ip \in Ips :
    GuardEvaluated(u, ip) =>
      \A key \in (DOMAIN attempts \cup DOMAIN attempts') \ {AttemptsKey(u, ip)} :
        /\ key \in DOMAIN attempts
        /\ key \in DOMAIN attempts'
        /\ attempts'[key] = attempts[key]

\* C19: an evaluation for (user u, IP a) leaves the counter of every other pair
\* (u, b) with b # a, and of every other user, as it was: none is created,
\* removed or changed.
C19_Independent == [][C19_Step]_vars

\* the guard was evaluated for an unfamiliar address of a user while a counter
\* of another address of the same user is stored
C19_Witness ==
  /\ reply.kind = "transfer-pin"
  /\ reply.result \notin {"Forbidden", "ok", "InvalidTransactionPin"}
  /\ ~users[reply.email].is_blocked
  /\ reply.ip # users[reply.email].ip_address
  /\ \E key \in DOMAIN attempts : key[1] = reply.email /\ key[2] # reply.ip

\* C20: a user for whom no counter was stored and who has been evaluated from
\* 4 distinct unrecognized addresses is blocked.
C20_Lockout ==
  \A u \in DOMAIN users :
    ((\A key \in DOMAIN attempts : key[1] # u) /\ Cardinality(seen[u]) >= 4) =>
      users[u].is_blocked

C21_Step ==
  \A u \in DOMAIN users, ip \in Ips :
    (GuardEvaluated(u, ip) /\ block_ip_attempts(u, ip).outcome = "block") =>
      /\ users'[u].is_blocked
      /\ reply'.result = "UserBlocked"

HasStaffRole(u) == users[u].role \in {"manager", "admin"}

\* some row of the transactions table has another status after the step
StatusChanged ==
  \E t \in Rows : transactions'[t].status # transactions[t].status

\* the step answers a PATCH /transactions/{uid} made by a user-role actor
UserPatchAnswered ==
  /\ last' # last
  /\ last'.kind = "update"
  /\ get_current_user(last'.user) = "ok"
  /\ ~HasStaffRole(last'.user)

C25_OnlyStaffStep ==
  StatusChanged =>
    /\ ~InFlight("r1")
    /\ req'["r1"].pc = "await_balance"
    /\ req'["r1"].kind = "update"
    /\ HasStaffRole(req'["r1"].user)
    /\ \A t \in Rows : transactions'[t].status # transactions[t].status => req'["r1"].tx = t

C25_OriginalStep ==
  /\ C25_OnlyStaffStep
  /\ UserPatchAnswered =>
       /\ last'.result = "InsufficientPermission"
       /\ ~StatusChanged
       /\ balance' = balance

\* C25 as stated: a status changes only through update_transaction by a
\* manager or an administrator, and a PATCH by a user-role actor fails with
\* InsufficientPermission and changes no status and no balance.
C25_Original == [][C25_OriginalStep]_vars

C25_Step ==
  /\ C25_OnlyStaffStep
  /\ UserPatchAnswered =>
       /\ last'.result = IF last'.account_number \in AccountNumbers
                           THEN "InsufficientPermission" ELSE "BankAccountNotFound"
       /\ transactions' = transactions
       /\ balance' = balance

\* C25, amended: a status changes only through update_transaction by a
\* manager or an administrator; a PATCH by a user-role actor changes no
\* transaction and no balance and fails with InsufficientPermission when the
\* account number of the request exists, with BankAccountNotFound when not.
C25_StaffOnlyStatus == [][C25_Step]_vars

\* a customer's PATCH on an existing transaction was refused for the role
C25_Witness ==
  /\ last.kind = "update"
  /\ ~HasStaffRole(last.user)
  /\ last.result = "InsufficientPermission"
  /\ Len(transactions) = 1

C27_Step ==
  (/\ last' # last
   /\ last'.kind = "create"
   /\ get_current_user(last'.user) = "ok")
  => IF HasStaffRole(last'.user)
       THEN /\ last'.result = "ok"
            /\ Len(transactions') = Len(transactions) + 1
            /\ SubSeq(transactions', 1, Len(transactions)) = transactions
            /\ last'.tx = Len(transactions')
            /\ transactions'[last'.tx].user_id = last'.user
            /\ transactions'[last'.tx].transaction_type = "transfer"
            /\ transactions'[last'.tx].status = "completed"
            /\ transactions'[last'.tx].amount = last'.amount
            /\ balance' = balance
       ELSE /\ last'.result = "InsufficientPermission"
            /\ transactions' = transactions
            /\ balance' = balance

\* C27: POST /transactions by a manager or an administrator persists exactly
\* one transaction, of type transfer and status completed, owned by the actor,
\* and changes no balance; by a user-role actor it fails with
\* InsufficientPermission and persists nothing.
C27_AdminCreate == [][C27_Step]_vars

C27_Witness ==
  /\ last.kind = "create"
  /\ last.result = "ok"
  /\ HasStaffRole(last.user)
  /\ Len(transactions) = 1
  /\ transactions[1].status = "completed"
  /\ balance = serial

C28_Step ==
  LET q == req["r1"] IN
  (/\ InFlight("r1")
   /\ q.kind = "update"
   /\ req'["r1"].pc = "idle"
   /\ last'.result = "ok"
   /\ \/ transactions[q.tx].status = "pending"
      \/ transactions[q.tx].transaction_type \in {"withdrawal", "deposit"})
  => balance' = balance

\* C28: a PATCH that sets the status pending, or any PATCH on a transaction of
\* type withdrawal or deposit, leaves every account balance unchanged.
C28_NoEffectOtherwise == [][C28_Step]_vars

\* a withdrawal was set to failed by a status update
C28_Witness ==
  /\ last.kind = "update"
  /\ last.result = "ok"
  /\ transactions[last.tx].transaction_type = "withdrawal"
  /\ transactions[last.tx].status = "failed"

\* C30: every transaction row persisted by a creation operation has
\* amount > 0, and no withdrawal or transfer creation increases a balance.
C30_PositiveAmounts ==
  /\ \A t \in Rows : transactions[t].amount > 0
  /\ \A t \in Rows :
       (ledger[t].origin \in {"withdraw", "domestic", "international"}
        /\ ledger[t].hist = <<>>)
         => \A a \in AccountNumbers : ledger[t].net[a] <= 0

\* the step answers a request that user u made to the transaction endpoints
EngineAnswered(u) == last' # last /\ last'.user = u

\* the step answers a request that user u made to the auth endpoints
AuthAnswered(u) == reply' # reply /\ reply'.email = u

\* the step is the first commit of a handler called by user u
HandlerStarted(u) ==
  ~InFlight("r1") /\ InFlight("r1")' /\ req'["r1"].user = u

C22_Step ==
  \A u \in DOMAIN users :
    users[u].is_blocked =>
      /\ EngineAnswered(u) =>
           /\ last'.result = "TypeError"
           /\ UNCHANGED <<users, balance, transactions>>
      /\ AuthAnswered(u) =>
           /\ reply'.result = "TypeError"
           /\ UNCHANGED <<users, balance, transactions>>
      /\ ~HandlerStarted(u)

\* C22: while a user's is_blocked flag is true, every request of that user to
\* an operation behind get_current_user (transaction creation, status update,
\* transaction reads, PIN verification) fails before the handler runs and
\* changes no balance, no transaction and no status.
C22_BlockedRejected == [][C22_Step]_vars

\* a blocked manager asked for a status update of an existing transaction
C22_Witness ==
  /\ last.kind = "update"
  /\ users[last.user].is_blocked
  /\ last.result = "TypeError"
  /\ Len(transactions) = 1
  /\ last.account_number \in AccountNumbers

C23_Step ==
  \A u \in DOMAIN users :
    (users[u].is_blocked /\ ~users'[u].is_blocked) =>
      /\ reply'.kind = "block"
      /\ reply'.secret = u
      /\ reply'.ip = BlockWord(FALSE)
      /\ HasStaffRole(reply'.email)

\* C23: a user's is_blocked flag changes from true to false only through the
\* block operation with block = false performed by an actor whose role is
\* admin or manager.
C23_UnblockByStaffOnly == [][C23_Step]_vars

Unverified(u) == ~users[u].is_blocked /\ ~users[u].verified

C24_Step ==
  \A u \in DOMAIN users :
    Unverified(u) =>
      /\ EngineAnswered(u) =>
           /\ last'.result = "Forbidden"
           /\ CodeStored(verification_code', u)
           /\ verification_code'[u].code = generate_verification_code(u)
           /\ UNCHANGED <<users, balance, transactions>>
      /\ AuthAnswered(u) =>
           /\ reply'.result = "Forbidden"
           /\ CodeStored(verification_code', u)
           /\ UNCHANGED <<users, balance, transactions>>
      /\ ~HandlerStarted(u)

C26_OwnOnly ==
  (/\ last.kind \in {"list", "detail"}
   /\ last.user \in DOMAIN users
   /\ users[last.user].role = "user")
  => /\ \A t \in last.rows : transactions[t].user_id = last.user
     /\ (/\ last.kind = "detail"
         /\ last.tx \in Rows
         /\ transactions[last.tx].user_id # last.user)
          => last.result = "TransactionNotFound"

C29_Step ==
  (\E a \in AccountNumbers : balance'[a] # balance[a]) =>
    /\ InFlight("r1")
    /\ req'["r1"].pc = "idle"
    /\ last'.tx = req["r1"].tx
    /\ last'.tx \in Rows

\* C29: every change of a bank account's balance is made by an operation that
\* also created a transaction or changed a transaction's status.
C29_EngineOnly == [][C29_Step]_vars

C31_Step ==
  \A t \in Rows :
    transactions'[t].status # transactions[t].status =>
      /\ transactions[t].status = "pending"
      /\ transactions'[t].status \in {"completed", "failed"}

\* C31: a transaction's status changes only while it is pending, to completed
\* or to failed; a completed or failed transaction keeps its status under
\* every operation, status updates by a manager or administrator included.
C31_TerminalStatus == [][C31_Step]_vars

\* C32: no compensating credit without a prior debit.  For every transaction
\* of positive amount that no handler is working on, and every account, the
\* balance changes applied to the account for the transaction add up to at
\* most zero.
C32_NoCreditWithoutDebit ==
  \A t \in Rows :
    (Positive(t) /\ Settled(t)) =>
      \A a \in AccountNumbers : ledger[t].net[a] <= 0

UpdateErrors == {"BankAccountNotFound", "InsufficientPermission", "TransactionNotFound"}

\* the step answers a PATCH /transactions/{uid} of an admitted user
PatchAnswered ==
  /\ last' # last
  /\ last'.kind = "update"
  /\ get_current_user(last'.user) = "ok"

C34_Step ==
  /\ (PatchAnswered /\ last'.result \in UpdateErrors) =>
       /\ balance' = balance
       /\ transactions' = transactions
  /\ (PatchAnswered /\ last'.account_number \notin AccountNumbers) =>
       last'.result = "BankAccountNotFound"
  /\ (PatchAnswered /\ last'.account_number \in AccountNumbers
                    /\ ~HasStaffRole(last'.user)) =>
       last'.result = "InsufficientPermission"
  /\ (PatchAnswered /\ last'.account_number \in AccountNumbers
                    /\ HasStaffRole(last'.user) /\ last'.result # "ok") =>
       last'.result = "TransactionNotFound"

\* C34: a PATCH /transactions/{uid} answered BankAccountNotFound,
\* InsufficientPermission or TransactionNotFound leaves every balance and
\* every transaction as it was; an unknown account number is answered
\* BankAccountNotFound whoever the actor and whatever the uid, a user-role
\* actor with a known account InsufficientPermission, and only then an
\* unknown uid TransactionNotFound.
C34_PatchFailures == [][C34_Step]_vars

\* a customer's PATCH with an unknown account number on an existing row
C34_Witness ==
  /\ last.kind = "update"
  /\ last.result = "BankAccountNotFound"
  /\ ~HasStaffRole(last.user)
  /\ last.account_number \notin AccountNumbers
  /\ Len(transactions) = 1

TokenEndpoints == {"logout", "me", "refresh-token"}

\* the bearer string is not a JWT of the server, or one whose exp has passed
Undecodable(T) == T = Forged \/ (T \in tokens /\ T.exp <= clock)

C33_Step ==
  (/\ reply' # reply
   /\ reply'.kind \in TokenEndpoints
   /\ Undecodable(reply'.token))
  => /\ reply'.result = "InvalidToken"
     /\ reply'.issued = {}
     /\ UNCHANGED <<users, balance, transactions, tokens, blocklist, attempts,
                    verification_code>>

\* C33: a request that presents a malformed, badly signed or expired token to
\* a token-protected endpoint is answered InvalidToken, whatever the kind of
\* the token and of the endpoint, and changes no balance, transaction,
\* blocklist entry or counter.
C33_InvalidFirst == [][C33_Step]_vars

\* an expired refresh token was presented to an access-token endpoint
C33_Witness ==
  /\ reply.kind = "me"
  /\ reply.token \in tokens
  /\ reply.token.refresh
  /\ reply.token.exp <= clock
  /\ reply.result = "InvalidToken"

C35_Step ==
  LET T == reply'.token IN
  /\ (reply' # reply /\ reply'.kind = "logout" /\ reply'.result = "ok") =>
       /\ DOMAIN blocklist' = DOMAIN blocklist \cup {T.jti}
       /\ \A j \in DOMAIN blocklist \ {T.jti} : blocklist'[j] = blocklist[j]
       /\ UNCHANGED <<users, balance, transactions, clock, tokens, attempts,
                      verification_code>>
       /\ \A R \in tokens :
            (R.refresh /\ Usable(R)) => (RefreshTokenBearer(R) = "ok")'
  /\ (reply' # reply /\ reply'.kind = "refresh-token" /\ reply'.result = "ok") =>
       \A n \in reply'.issued : (AccessTokenBearer(n) = "ok")'

\* C35: logout puts exactly the presented access token's jti in the blocklist
\* and changes nothing else, so every refresh token accepted before the
\* logout is accepted after it, and the access token a refresh issues is
\* accepted.
C35_LogoutFrame == [][C35_Step]_vars

\* after the logout of an access token, the refresh token of the same login
\* was exchanged for a new access token
C35_Witness ==
  /\ reply.kind = "refresh-token"
  /\ reply.result = "ok"
  /\ \E A \in tokens :
       /\ ~A.refresh
       /\ A.jti + 1 = reply.token.jti
       /\ A.user.email = reply.token.user.email
       /\ token_in_blocklist(A.jti)

MoneyMoving == {"withdraw", "domestic", "international"}

C36_Step ==
  (/\ last' # last
   /\ last'.kind \in MoneyMoving
   /\ users[last'.user].role = "user")
  => \A a \in AccountNumbers :
       balance'[a] # balance[a] => BankAccountUser[a] = last'.user

\* C36: a withdraw, domestic-transfer or international-transfer request by a
\* user-role caller changes the balance of no bank account owned by another
\* user, whatever account number it names.
C36_OwnAccountOnly == [][C36_Step]_vars

\* PATCH /users/{uid} wrote a user row on behalf of an actor of role user
UserRoleActorWrote ==
  /\ users' # users
  /\ reply'.kind = "update-user"
  /\ users[reply'.email].role = "user"

C37_Step ==
  UserRoleActorWrote =>
    /\ \A u \in DOMAIN users : users'[u].role = users[u].role
    /\ users'[reply'.email].role \notin {"manager", "admin"}

\* C37: the role a user was created with does not change: no operation
\* performed by an actor of role user, PATCH /users/{uid} with any body
\* included, changes a user's role or lets that actor pass the admin/manager
\* check.
C37_RoleFixed == [][C37_Step]_vars

SameDomain(u, t) == transactions[t].domain = users[u].domain

C38_Step ==
  /\ (/\ last' # last
      /\ last'.kind \in {"list", "detail"}
      /\ last'.result = "ok"
      /\ users[last'.user].role = "manager")
     => \A t \in last'.rows : SameDomain(last'.user, t)
  /\ \A r \in Requests :
       (/\ req'[r] # req[r]
        /\ req'[r].pc = "await_balance"
        /\ req'[r].kind = "update"
        /\ users[req'[r].user].role = "manager")
       => SameDomain(req'[r].user, req'[r].tx)

\* C38: every transaction a manager is given by the listing, is given by uid
\* or updates has the manager's own domain.
C38_ManagerDomain == [][C38_Step]_vars

====
